---- MODULE Spec2Model ----
(***************************************************************************)
(* Model of the notebook dcm-demo.py: a straight-line sequence of cells    *)
(* that read two widgets, list and catalog the files under a path, save    *)
(* the catalog to a table, load it back, extract Dicom metadata, save      *)
(* again, query the table, filter it and plot the filtered rows.           *)
(*                                                                         *)
(* Every statement that calls into dbutils, spark or databricks.pixels is  *)
(* one step with three moves: it begins (the call is issued), and then it  *)
(* either returns (its effect is applied and the next statement becomes    *)
(* current) or raises (the notebook has no try/except, so the run stops).  *)
(* Dataframes are evaluated when the statement runs and the storage under  *)
(* the path is not changed by anybody else during a run.                   *)
(***************************************************************************)
EXTENDS FiniteSets, Integers, Sequences, TLC

VARIABLES widgets, fs, tables0, tables, pc, inflight, log, error, tablesAtRaise,
          path, table, conf, catalog_df, meta_df, dcm_df_filtered, plots,
          cataloged, counts, referenced

vars == <<widgets, fs, tables0, tables, pc, inflight, log, error, tablesAtRaise,
          path, table, conf, catalog_df, meta_df, dcm_df_filtered, plots,
          cataloged, counts, referenced>>

(***************************************************************************)
(* Bounds and program constants                                            *)
(***************************************************************************)
\* largest number of files under the source path
MaxFiles == 101

\* dcm_df_filtered.limit(100)
PlotLimit == 100

\* filter('meta:img_max < 1000')
ImgMaxThreshold == 1000

\* catalog_df.repartition(10_000)
TransformPartitions == 10000

\* .repartition(1000)
FilterPartitions == 1000

(***************************************************************************)
(* Widget values the user can supply                                       *)
(***************************************************************************)
DefaultPath == "s3://hls-eng-data-public/dicom/ddsm/"

DefaultTable == "<catalog>.<schema>.<table>"

\* a path with nothing under it: listing it raises
MissingPath == "/dbfs/no/such/dir/"

UserTable == "main.pixels.object_catalog"

OtherTable == "main.pixels.other"

PathInputs == {DefaultPath, MissingPath}

TableInputs == {DefaultTable, UserTable, OtherTable}

\* names the metastore accepts; the placeholder default is not one of them
ValidTables == {UserTable, OtherTable}

Unset == "<unset>"

NoArg == "<none>"

(***************************************************************************)
(* Storage under the source path: a set of files.  A file has an id, and   *)
(* its pixel data has a largest value (img_max) unless the file holds no   *)
(* image.  Files(n, k): n files, the first k with img_max 999, the next    *)
(* one exactly 1000, the next one without pixel data, the rest 1001.       *)
(***************************************************************************)
FileOf(i, k) ==
    [id |-> i,
     hasMax |-> (i # k + 2),
     max |-> IF i <= k THEN 999
             ELSE IF i = k + 1 THEN 1000
             ELSE IF i = k + 2 THEN 0 ELSE 1001]

Files(n, k) == {FileOf(i, k) : i \in 1..n}

Layouts == {<<0, 0>>, <<1, 0>>, <<1, 1>>, <<3, 1>>,
            <<MaxFiles, MaxFiles - 2>>, <<MaxFiles, MaxFiles>>}

FileSystems == {Files(l[1], l[2]) : l \in Layouts}

PathExists(p) == p = DefaultPath

\* the files found under path p of the storage files
Listing(files, p) == IF PathExists(p) THEN files ELSE {}

(***************************************************************************)
(* Dataframes and tables.  A dataframe is [cols, rows, parts]; a row maps  *)
(* each column to a value.  A catalog cell is <<column, file id>>; a meta  *)
(* cell is <<"meta", has img_max, img_max>>, the part of the JSON blob the *)
(* notebook's statements look at.                                          *)
(***************************************************************************)
NoDF == [cols |-> {}, rows |-> {}, parts |-> 0]

NoTable == [exists |-> FALSE, cols |-> {}, rows |-> {}]

BaseCols == {"rowid", "path", "local_path"}

CatalogSchemas == {BaseCols \cup {"path_tags"}, BaseCols}

CatalogRow(f, cols) == [c \in cols |-> <<c, f.id>>]

\* a table left behind by an earlier run: one row of a file no longer there
OldTable ==
    [exists |-> TRUE,
     cols |-> BaseCols \cup {"path_tags", "meta"},
     rows |-> {[c \in BaseCols \cup {"path_tags", "meta"} |->
                  IF c = "meta" THEN <<"meta", TRUE, 500>> ELSE <<c, 0>>]}]

TableStates == [ValidTables -> {NoTable, OldTable}]

\* Catalog.catalog(spark, path): one row per file under the path
Catalog(files, cols) ==
    [cols |-> cols, rows |-> {CatalogRow(f, cols) : f \in files}, parts |-> 1]

\* Catalog.save(df, table=t, mode=mode)
Save(tbls, df, t, mode) ==
    [tbls EXCEPT ![t] =
        IF mode = "overwrite" \/ ~tbls[t].exists
        THEN [exists |-> TRUE, cols |-> df.cols, rows |-> df.rows]
        ELSE [exists |-> TRUE, cols |-> tbls[t].cols \cup df.cols,
              rows |-> tbls[t].rows \cup df.rows]]

\* Catalog.load(spark, table=t) and spark.table(t)
Load(tbls, t) == [cols |-> tbls[t].cols, rows |-> tbls[t].rows, parts |-> 1]

\* df.repartition(n): the rows are redistributed, none is added or dropped
Repartition(df, n) == [df EXCEPT !.parts = n]

\* the metadata cell of the file a catalog row refers to
MetaOf(files, r) ==
    IF \E f \in files : f.id = r["local_path"][2]
    THEN LET f == CHOOSE g \in files : g.id = r["local_path"][2]
         IN  <<"meta", f.hasMax, f.max>>
    ELSE <<"meta", FALSE, 0>>

\* DicomMetaExtractor().transform(df): df with the column meta added
Transform(df, files) ==
    [cols |-> df.cols \cup {"meta"},
     rows |-> {[c \in df.cols \cup {"meta"} |->
                  IF c = "meta" THEN MetaOf(files, r) ELSE r[c]] : r \in df.rows},
     parts |-> df.parts]

\* df.count()
Count(df) == Cardinality(df.rows)

RECURSIVE KSubsets(_, _)
KSubsets(S, k) ==
    IF k = 0 THEN {{}}
    ELSE UNION {{T \cup {x} : T \in KSubsets(S \ {x}, k - 1)} : x \in S}

\* df.limit(n): any n of the rows (all of them when there are no more than n)
Limit(df, n) ==
    IF Count(df) <= n THEN {df}
    ELSE {[df EXCEPT !.rows = df.rows \ D] : D \in KSubsets(df.rows, Count(df) - n)}

(***************************************************************************)
(* The statements of the notebook                                          *)
(***************************************************************************)
Steps == <<"pip", "widgets", "ls", "catalog", "save1", "sqlcount1", "load1",
           "dfcount", "transform", "save2", "sparktable", "sqlcount2",
           "sqlmeta1", "sqlmeta2", "loadfilter", "filtcount", "plotx">>

IndexOf(seq, s) == CHOOSE i \in 1..Len(seq) : seq[i] = s

\* the element after s in seq, "done" after the last one
Following(seq, s) ==
    IF IndexOf(seq, s) = Len(seq) THEN "done" ELSE seq[IndexOf(seq, s) + 1]

\* a notebook in which the filter cell was moved above the second save
ReorderedSteps == <<"pip", "widgets", "ls", "catalog", "save1", "sqlcount1", "load1",
                    "dfcount", "transform", "loadfilter", "save2", "sparktable",
                    "sqlcount2", "sqlmeta1", "sqlmeta2", "filtcount", "plotx">>

NextStepReordered(s) == Following(ReorderedSteps, s)

\* a notebook that stops early when the catalog is empty
NextStepBranch(s) ==
    IF s = "dfcount" /\ catalog_df.rows = {} THEN "done" ELSE Following(Steps, s)

\* the statement that follows s in the notebook
NextStep(s) == Following(Steps, s)

\* a notebook that runs a failed statement again
OnRaiseRetry(s) == s

\* no statement is wrapped in try/except: an exception ends the run
OnRaise(s) == "failed"

\* the external functions a statement calls, in the order it calls them
CallsOf(s) ==
    CASE s = "pip" -> <<"pip install">>
      [] s = "widgets" -> <<"dbutils.widgets.get">>
      [] s = "ls" -> <<"dbutils.fs.ls">>
      [] s = "catalog" -> <<"Catalog.catalog">>
      [] s \in {"save1", "save2"} -> <<"Catalog.save">>
      [] s \in {"sqlcount1", "sqlcount2", "sqlmeta1", "sqlmeta2"} -> <<"sql">>
      [] s = "load1" -> <<"Catalog.load">>
      [] s \in {"dfcount", "filtcount"} -> <<"count">>
      [] s = "transform" -> <<"transform">>
      [] s = "sparktable" -> <<"spark.table">>
      [] s = "loadfilter" -> <<"Catalog.load", "filter">>
      [] s = "plotx" -> <<"plotx">>

\* a notebook that replaces the placeholder table name by a table of its own
ReadWidgetDefaulted(name) ==
    IF widgets[name] = DefaultTable THEN UserTable ELSE widgets[name]

\* dbutils.widgets.get(name)
ReadWidget(name) == widgets[name]

\* the text of the SQL cells, as tokens
Query(s) ==
    CASE s = "sqlcount1" -> <<"select", "count(*)", "from", "${c.table}">>
      [] s = "sqlcount2" -> <<"select", "count(1)", "from", "${c.table}">>
      [] s = "sqlmeta1" -> <<"select", "meta", "path", "from", "${c.table}">>
      [] s = "sqlmeta2" -> <<"select", "rowid", "meta", "path", "from",
                             "${c.table}", "where", "path_tags", "order by">>

\* ${name} is replaced by the value spark.conf holds for name
Substitute(q, cfg) ==
    [i \in 1..Len(q) |->
        IF \E k \in DOMAIN cfg : q[i] = "${" \o k \o "}"
        THEN cfg[CHOOSE k \in DOMAIN cfg : q[i] = "${" \o k \o "}"]
        ELSE q[i]]

\* the table a query reads: the token after "from"
FromTable(q) == q[(CHOOSE i \in 1..Len(q) : q[i] = "from") + 1]

SqlTarget(s) == FromTable(Substitute(Query(s), conf))

SqlSteps == {"sqlcount1", "sqlcount2", "sqlmeta1", "sqlmeta2"}

\* the path a statement passes to its call
PathArg(s) == IF s \in {"ls", "catalog"} THEN path ELSE NoArg

\* the table a statement saves to or reads
TableArg(s) ==
    IF s \in {"save1", "load1", "save2", "sparktable", "loadfilter"} THEN table
    ELSE IF s \in SqlSteps THEN SqlTarget(s)
    ELSE NoArg

\* a notebook that saves with the library's default mode
SaveModeAppend(s) == "append"

\* mode= of the two Catalog.save calls
SaveMode(s) == "overwrite"

\* a notebook whose first save names a column of the catalog
ColumnsReferencedBySave(s) ==
    CASE s = "save1" -> {"path"}
      [] s = "sqlmeta1" -> {"meta", "path"}
      [] s = "sqlmeta2" -> {"rowid", "meta", "path", "path_tags"}
      [] s = "loadfilter" -> {"meta"}
      [] s = "plotx" -> {"local_path"}
      [] OTHER -> {}

\* the column names that appear in the text of a statement
ColumnsReferenced(s) ==
    CASE s = "sqlmeta1" -> {"meta", "path"}
      [] s = "sqlmeta2" -> {"rowid", "meta", "path", "path_tags"}
      [] s = "loadfilter" -> {"meta"}
      [] s = "plotx" -> {"local_path"}
      [] OTHER -> {}

\* filter('meta:img_max <= 1000')
ImgMaxAtMost(r) == r["meta"][2] /\ r["meta"][3] <= ImgMaxThreshold

\* filter('meta:img_max < 1000'); a row without img_max compares as null
ImgMaxBelow(r) == r["meta"][2] /\ r["meta"][3] < ImgMaxThreshold

Filter(df) == [df EXCEPT !.rows = {r \in df.rows : ImgMaxBelow(r)}]

\* meta.transform(catalog_df.limit(2)): a sample instead of the whole catalog
TransformInputSample(df) ==
    [df EXCEPT !.rows = {r \in df.rows : r["rowid"][2] <= 2}]

\* meta.transform(catalog_df.repartition(10_000))
TransformInput(df) == Repartition(df, TransformPartitions)

\* DicomFrames(dcm_df_filtered.limit(100), ...)
PlotInput(df) == Limit(df, PlotLimit)

\* what the external call of a statement needs in order to return
CanReturn(s) ==
    CASE s \in {"ls", "catalog"} -> PathExists(path)
      [] s \in {"save1", "save2"} -> table \in ValidTables
      [] s \in {"load1", "sparktable"} \cup SqlSteps ->
            /\ TableArg(s) \in ValidTables
            /\ tables[TableArg(s)].exists
            /\ ColumnsReferenced(s) \subseteq tables[TableArg(s)].cols
      [] s = "loadfilter" ->
            /\ table \in ValidTables
            /\ tables[table].exists
            /\ ColumnsReferenced(s) \subseteq tables[table].cols
      [] s = "plotx" -> ColumnsReferenced(s) \subseteq dcm_df_filtered.cols
      [] OTHER -> TRUE

NoCounts == [sql1 |-> -1, df |-> -1, sql2 |-> -1, filtered |-> -1]

Init ==
    /\ widgets \in {[path |-> p, table |-> t] : p \in PathInputs, t \in TableInputs}
    /\ fs \in FileSystems
    /\ tables \in TableStates
    /\ tables0 = tables
    /\ pc = "pip"
    /\ inflight = {}
    /\ log = <<>>
    /\ error = NoArg
    /\ tablesAtRaise = tables
    /\ path = Unset
    /\ table = Unset
    /\ conf = [k \in {"c.table"} |-> Unset]
    /\ catalog_df = NoDF
    /\ meta_df = NoDF
    /\ dcm_df_filtered = NoDF
    /\ plots = {}
    /\ cataloged = NoDF
    /\ counts = NoCounts
    /\ referenced = {}

(***************************************************************************)
(* The three moves of a statement                                          *)
(***************************************************************************)
inputVars == <<widgets, fs, tables0>>

dataVars == <<tables, path, table, conf, catalog_df, meta_df, dcm_df_filtered,
              plots, cataloged, counts>>

\* the statement s is current and nothing is running
CanBegin(s) == pc = s /\ inflight = {}

SetStatus(l, st) == [l EXCEPT ![Len(l)].status = st]

\* the call of statement s is issued with the arguments the statement names
Begin(s) ==
    /\ CanBegin(s)
    /\ inflight' = inflight \cup {s}
    /\ log' = Append(log, [step |-> s, calls |-> CallsOf(s), path |-> PathArg(s),
                           table |-> TableArg(s), status |-> "running"])
    /\ referenced' = referenced \cup ColumnsReferenced(s)
    /\ UNCHANGED <<pc, error, tablesAtRaise, dataVars, inputVars>>

\* the call raises: the exception reaches the top of the run
Raise(s) ==
    /\ s \in inflight
    /\ inflight' = inflight \ {s}
    /\ pc' = OnRaise(s)
    /\ log' = SetStatus(log, "raised")
    /\ error' = s
    /\ tablesAtRaise' = tables
    /\ UNCHANGED <<referenced, dataVars, inputVars>>

\* the call returns: the next statement becomes current
Return(s) ==
    /\ s \in inflight
    /\ CanReturn(s)
    /\ inflight' = inflight \ {s}
    /\ pc' = NextStep(s)
    /\ log' = SetStatus(log, "ok")
    /\ UNCHANGED <<error, tablesAtRaise, referenced, inputVars>>

(***************************************************************************)
(* One action per statement                                                *)
(***************************************************************************)
InstallRequirements ==
    \/ Begin("pip")
    \/ Raise("pip")
    \/ Return("pip") /\ UNCHANGED dataVars

CollectWidgets ==
    \/ Begin("widgets")
    \/ Raise("widgets")
    \/ /\ Return("widgets")
       /\ path' = ReadWidget("path")
       /\ table' = ReadWidget("table")
       /\ conf' = [conf EXCEPT !["c.table"] = ReadWidget("table")]
       /\ UNCHANGED <<tables, catalog_df, meta_df, dcm_df_filtered, plots,
                      cataloged, counts>>

ListFiles ==
    \/ Begin("ls")
    \/ Raise("ls")
    \/ Return("ls") /\ UNCHANGED dataVars

CatalogFiles ==
    \/ Begin("catalog")
    \/ Raise("catalog")
    \/ /\ Return("catalog")
       /\ \E cols \in CatalogSchemas :
            /\ catalog_df' = Catalog(Listing(fs, path), cols)
            /\ cataloged' = Catalog(Listing(fs, path), cols)
       /\ UNCHANGED <<tables, path, table, conf, meta_df, dcm_df_filtered,
                      plots, counts>>

SaveCatalog ==
    \/ Begin("save1")
    \/ Raise("save1")
    \/ /\ Return("save1")
       /\ tables' = Save(tables, catalog_df, table, SaveMode("save1"))
       /\ UNCHANGED <<path, table, conf, catalog_df, meta_df, dcm_df_filtered,
                      plots, cataloged, counts>>

CountTable ==
    \/ Begin("sqlcount1")
    \/ Raise("sqlcount1")
    \/ /\ Return("sqlcount1")
       /\ counts' = [counts EXCEPT !.sql1 = Count(Load(tables, SqlTarget("sqlcount1")))]
       /\ UNCHANGED <<tables, path, table, conf, catalog_df, meta_df,
                      dcm_df_filtered, plots, cataloged>>

LoadCatalog ==
    \/ Begin("load1")
    \/ Raise("load1")
    \/ /\ Return("load1")
       /\ catalog_df' = Load(tables, table)
       /\ UNCHANGED <<tables, path, table, conf, meta_df, dcm_df_filtered,
                      plots, cataloged, counts>>

CountCatalog ==
    \/ Begin("dfcount")
    \/ Raise("dfcount")
    \/ /\ Return("dfcount")
       /\ counts' = [counts EXCEPT !.df = Count(catalog_df)]
       /\ UNCHANGED <<tables, path, table, conf, catalog_df, meta_df,
                      dcm_df_filtered, plots, cataloged>>

ExtractMeta ==
    \/ Begin("transform")
    \/ Raise("transform")
    \/ /\ Return("transform")
       /\ meta_df' = Transform(TransformInput(catalog_df), fs)
       /\ UNCHANGED <<tables, path, table, conf, catalog_df, dcm_df_filtered,
                      plots, cataloged, counts>>

SaveMeta ==
    \/ Begin("save2")
    \/ Raise("save2")
    \/ /\ Return("save2")
       /\ tables' = Save(tables, meta_df, table, SaveMode("save2"))
       /\ UNCHANGED <<path, table, conf, catalog_df, meta_df, dcm_df_filtered,
                      plots, cataloged, counts>>

ShowTable ==
    \/ Begin("sparktable")
    \/ Raise("sparktable")
    \/ Return("sparktable") /\ UNCHANGED dataVars

CountMetaTable ==
    \/ Begin("sqlcount2")
    \/ Raise("sqlcount2")
    \/ /\ Return("sqlcount2")
       /\ counts' = [counts EXCEPT !.sql2 = Count(Load(tables, SqlTarget("sqlcount2")))]
       /\ UNCHANGED <<tables, path, table, conf, catalog_df, meta_df,
                      dcm_df_filtered, plots, cataloged>>

QueryMeta ==
    \/ Begin("sqlmeta1")
    \/ Raise("sqlmeta1")
    \/ Return("sqlmeta1") /\ UNCHANGED dataVars

QueryPatient ==
    \/ Begin("sqlmeta2")
    \/ Raise("sqlmeta2")
    \/ Return("sqlmeta2") /\ UNCHANGED dataVars

FilterImages ==
    \/ Begin("loadfilter")
    \/ Raise("loadfilter")
    \/ /\ Return("loadfilter")
       /\ dcm_df_filtered' = Repartition(Filter(Load(tables, table)), FilterPartitions)
       /\ UNCHANGED <<tables, path, table, conf, catalog_df, meta_df, plots,
                      cataloged, counts>>

CountFiltered ==
    \/ Begin("filtcount")
    \/ Raise("filtcount")
    \/ /\ Return("filtcount")
       /\ counts' = [counts EXCEPT !.filtered = Count(dcm_df_filtered)]
       /\ UNCHANGED <<tables, path, table, conf, catalog_df, meta_df,
                      dcm_df_filtered, plots, cataloged>>

PlotImages ==
    \/ Begin("plotx")
    \/ Raise("plotx")
    \/ /\ Return("plotx")
       /\ \E d \in PlotInput(dcm_df_filtered) : plots' = d.rows
       /\ UNCHANGED <<tables, path, table, conf, catalog_df, meta_df,
                      dcm_df_filtered, cataloged, counts>>

Next ==
    \/ InstallRequirements
    \/ CollectWidgets
    \/ ListFiles
    \/ CatalogFiles
    \/ SaveCatalog
    \/ CountTable
    \/ LoadCatalog
    \/ CountCatalog
    \/ ExtractMeta
    \/ SaveMeta
    \/ ShowTable
    \/ CountMetaTable
    \/ QueryMeta
    \/ QueryPatient
    \/ FilterImages
    \/ CountFiltered
    \/ PlotImages

Spec == Init /\ [][Next]_vars

(***************************************************************************)
(* Properties                                                              *)
(***************************************************************************)
RECURSIVE Flatten(_)
Flatten(seqs) == IF seqs = <<>> THEN <<>> ELSE Head(seqs) \o Flatten(Tail(seqs))

\* every external call issued so far, in the order of issue
CallsIssued == Flatten([i \in 1..Len(log) |-> log[i].calls])

IsPrefix(a, b) == Len(a) <= Len(b) /\ SubSeq(b, 1, Len(a)) = a

NamedCalls == {"dbutils.fs.ls", "Catalog.catalog", "Catalog.save", "Catalog.load",
               "transform", "filter", "plotx"}

IsNamed(c) == c \in NamedCalls

Returned(s) == \E i \in 1..Len(log) : log[i].step = s /\ log[i].status = "ok"

Begun(s) == \E i \in 1..Len(log) : log[i].step = s

\* C1 as stated: the calls list, catalog, save, load, transform, filter and
\* plot are issued in exactly this order, each of them once.
C1_Original ==
    IsPrefix(SelectSeq(CallsIssued, IsNamed),
             <<"dbutils.fs.ls", "Catalog.catalog", "Catalog.save", "Catalog.load",
               "transform", "filter", "plotx">>)

\* C1 amended: the calls are issued in the order list, catalog, save, load,
\* transform, save, load, filter, plot, and a call is issued only after every
\* call issued before it has completed.
C1_CallOrder ==
    /\ IsPrefix(SelectSeq(CallsIssued, IsNamed),
                <<"dbutils.fs.ls", "Catalog.catalog", "Catalog.save", "Catalog.load",
                  "transform", "Catalog.save", "Catalog.load", "filter", "plotx">>)
    /\ \A i \in 1..Len(log) - 1 : log[i].status # "running"

C1_Witness ==
    /\ pc = "done"
    /\ SelectSeq(CallsIssued, IsNamed) =
          <<"dbutils.fs.ls", "Catalog.catalog", "Catalog.save", "Catalog.load",
            "transform", "Catalog.save", "Catalog.load", "filter", "plotx">>

\* C2: after a call raises nothing more happens: the failed call is the last
\* entry of the log (no retry, no later statement), the exception that
\* surfaces is the one of that call, and the tables are as they were when it
\* raised.
C2_NoRecovery ==
    /\ \A i \in 1..Len(log) - 1 : log[i].status = "ok"
    /\ (error # NoArg) = (pc = "failed")
    /\ pc = "failed" =>
          /\ log # <<>>
          /\ log[Len(log)].status = "raised"
          /\ log[Len(log)].step = error
          /\ inflight = {}
          /\ tables = tablesAtRaise

\* the second save raised after the first one had written the catalog
C2_Witness ==
    /\ pc = "failed"
    /\ error = "save2"
    /\ tables[table].rows # {}
    /\ tables[table] # tables0[table]

\* C3: the values of the two widgets are what every call receives: every path
\* argument is the path widget's value, every table argument (save, load,
\* spark.table, SQL) is the table widget's value, the variables keep these
\* values once read, and no other table is written.
C3_WidgetsPassedThrough ==
    /\ \A i \in 1..Len(log) :
          /\ log[i].path \in {NoArg, widgets["path"]}
          /\ log[i].table \in {NoArg, widgets["table"]}
          /\ log[i].step \in {"ls", "catalog"} => log[i].path = widgets["path"]
          /\ log[i].step \in {"save1", "load1", "save2", "sparktable", "loadfilter",
                              "sqlcount1", "sqlcount2", "sqlmeta1", "sqlmeta2"}
                => log[i].table = widgets["table"]
    /\ Returned("widgets") =>
          /\ path = widgets["path"]
          /\ table = widgets["table"]
          /\ conf["c.table"] = widgets["table"]
    /\ \A t \in ValidTables \ {widgets["table"]} : tables[t] = tables0[t]

\* the placeholder table name reached Catalog.save unchanged
C3_Witness ==
    /\ widgets["table"] = DefaultTable
    /\ Begun("save1")
    /\ log[Len(log)].table = DefaultTable

\* the rows of df restricted to the columns cols
Project(df, cols) == {[c \in cols |-> r[c]] : r \in df.rows}

\* C4: the metadata dataframe has the columns of the catalog dataframe plus
\* meta, one row for each catalog row, and every catalog column of every row
\* keeps its value; repartitioning before the transform changes no row.
C4_MetaAugmentsCatalog ==
    Returned("transform") =>
        /\ "meta" \notin catalog_df.cols
        /\ meta_df.cols = catalog_df.cols \cup {"meta"}
        /\ Cardinality(meta_df.rows) = Cardinality(catalog_df.rows)
        /\ Project(meta_df, catalog_df.cols) = catalog_df.rows

C4_Witness ==
    /\ Returned("transform")
    /\ Cardinality(catalog_df.rows) >= 3
    /\ \E r \in meta_df.rows : r["meta"][2]
    /\ \E r \in meta_df.rows : ~r["meta"][2]

\* C5: the dataframe loaded right after the first save has exactly the rows
\* and columns of the dataframe Catalog.catalog produced, whatever the table
\* held before.
C5_SaveLoadRoundTrip ==
    Returned("load1") =>
        /\ catalog_df.rows = cataloged.rows
        /\ catalog_df.cols = cataloged.cols

\* the table existed with other rows before the run
C5_Witness ==
    /\ Returned("load1")
    /\ tables0[table] = OldTable
    /\ Cardinality(catalog_df.rows) >= 3

CellOrder == <<"pip", "widgets", "ls", "catalog", "save1", "sqlcount1", "load1",
               "dfcount", "transform", "save2", "sparktable", "sqlcount2",
               "sqlmeta1", "sqlmeta2", "loadfilter", "filtcount", "plotx", "done">>

Position(s) == CHOOSE i \in 1..Len(CellOrder) : CellOrder[i] = s

\* C6: the run is a straight line: at most one statement is in progress, a
\* statement that is not in progress can begin only if it is the one current
\* statement, and the current statement changes only to the next cell of the
\* notebook or to the failed state, whatever the widgets and the data are.
C6_StraightLine ==
    [][/\ Cardinality(inflight) <= 1
       /\ Cardinality(inflight') <= 1
       /\ (pc \notin {"done", "failed"} /\ inflight = {}) =>
             Cardinality({i \in 1..Len(Steps) : CanBegin(Steps[i])}) = 1
       /\ pc' # pc =>
             /\ pc \notin {"done", "failed"}
             /\ pc' \in {CellOrder[Position(pc) + 1], "failed"}]_vars

\* a run over an empty directory goes through every statement all the same
C6_Witness == pc = "done" /\ fs = {} /\ Len(log) = Len(Steps)

\* C7 as stated: no statement of the notebook names a column.
C7_Original == referenced = {}

\* C7 amended: no statement up to the second save and the counts that follow
\* it names a column; the two meta queries, the filter and the plot name
\* meta, path, rowid, path_tags and local_path, and they cannot return when
\* the table or dataframe lacks a column they name.
C7_ColumnsReferenced ==
    /\ ~Begun("sqlmeta1") => referenced = {}
    /\ (Begun("sqlmeta1") /\ ~Begun("sqlmeta2")) => referenced = {"meta", "path"}
    /\ (Begun("sqlmeta2") /\ ~Begun("plotx")) =>
          referenced = {"meta", "path", "rowid", "path_tags"}
    /\ Begun("plotx") =>
          referenced = {"meta", "path", "rowid", "path_tags", "local_path"}
    /\ Returned("sqlmeta2") => "path_tags" \in cataloged.cols

C7_Witness ==
    /\ pc = "done"
    /\ referenced = {"meta", "path", "rowid", "path_tags", "local_path"}

\* C8: the table never accumulates rows: between the two saves it holds
\* exactly the cataloged rows, after the second save exactly the rows of the
\* metadata dataframe, one for each cataloged file, and both count queries
\* report the number of cataloged files.
C8_OverwriteKeepsCount ==
    /\ (Returned("save1") /\ ~Returned("save2")) =>
          tables[table].rows = cataloged.rows
    /\ Returned("save2") =>
          /\ tables[table].rows = meta_df.rows
          /\ Cardinality(tables[table].rows) = Cardinality(fs)
    /\ Returned("sqlcount1") => counts.sql1 = Cardinality(fs)
    /\ Returned("sqlcount2") => counts.sql2 = Cardinality(fs)

C8_Witness ==
    /\ Returned("sqlcount2")
    /\ tables0[table] = OldTable
    /\ counts.sql1 = 3
    /\ counts.sql2 = 3

\* C9: every row handed to plotx is a row of the table whose img_max exists
\* and is below 1000, and at most 100 rows are handed over.
C9_PlottedRows ==
    /\ Cardinality(plots) <= 100
    /\ plots # {} =>
          /\ table \in ValidTables
          /\ plots \subseteq tables[table].rows
          /\ \A r \in plots : r["meta"][2] /\ r["meta"][3] < 1000

\* more than 100 rows passed the filter and exactly 100 were plotted
C9_Witness ==
    /\ pc = "done"
    /\ counts.filtered > 100
    /\ Cardinality(plots) = 100

MetaReaders == {"sqlmeta1", "sqlmeta2", "loadfilter"}

\* C10: while a statement that reads meta is in progress the second save has
\* returned and the table holds the metadata dataframe, column meta included.
C10_MetaReadAfterSave ==
    \A s \in MetaReaders :
        s \in inflight =>
            /\ Returned("save2")
            /\ tables[table].exists
            /\ "meta" \in tables[table].cols
            /\ tables[table].rows = meta_df.rows

\* the filter runs on a table that did not exist before the run
C10_Witness ==
    /\ "loadfilter" \in inflight
    /\ ~tables0[table].exists
    /\ "meta" \in tables[table].cols

====
